---- MODULE Spec2Model ----
(***************************************************************************)
(* A model of melonJS src/object.js: Object.prototype.mixin, the           *)
(* Function.prototype.bind fallback and Object.prototype.extend (the       *)
(* class-inheritance helper with mixins and the _super dispatch helper).   *)
(*                                                                         *)
(* The host's object model is modelled as far as the file uses it: objects *)
(* with a [[Prototype]] link and own properties, [[Get]] walking the       *)
(* chain, Object.create, Object.keys, defineProperty and instanceof.       *)
(***************************************************************************)
EXTENDS Integers, Sequences, FiniteSets, TLC

(***************************************************************************)
(* Bounds of the model.                                                    *)
(***************************************************************************)
\* extend-produced classes in the heap of Spec
MaxClasses == 3
\* mixin arguments of one extend call
MaxMixins == 2
\* arguments of one constructor call or one _super call
MaxArgs == 1

(***************************************************************************)
(* JavaScript values.  Every value is a record of the same shape, so that  *)
(* any two values can be compared.                                         *)
(***************************************************************************)
Val(t, name, n) == [t |-> t, name |-> name, n |-> n]
Undef == Val("undefined", "", 0)
Bool(b) == Val("boolean", IF b THEN "true" ELSE "false", 0)
Fn(name) == Val("function", name, 0)
\* the class function returned by the n-th evaluation of extend; class 1 is Object
ClassRef(n) == Val("class", "Class", n)
\* a plain method map (an object literal) passed to extend
MapRef(name) == Val("map", name, 0)

\* method names used by the documentation example of extend
Names == {"init", "dance", "swingSword"}
\* the functions of the documentation example
FnNames == {"PersonInit", "PersonDance", "NinjaInit", "NinjaDance", "SwingSword", "PirateInit"}
NoMethods == [k \in Names |-> Undef]

VARIABLES
    protos,     \* heap of prototype objects: a sequence of [parent, own, constructor]
    classes,    \* heap of class functions: a sequence of [prototype, methods, parent]
    maps,       \* heap of the plain method maps (object literals) in scope
    op,         \* the call that ran last: its kind and its arguments
    inst,       \* the instance created by the last `new` (or NoInst)
    trace,      \* the user functions the last call invoked, in order
    ret,        \* what the last call returned (or the fault it raised)
    objs,       \* heap of the plain objects mixin is called on and with
    bound       \* the function the last bind call returned (or NoBound)

vars == <<protos, classes, maps, op, inst, trace, ret, objs, bound>>

(***************************************************************************)
(* The host object model, as far as extend uses it.                        *)
(***************************************************************************)
\* all sequences over S of length at most n (the arguments objects of a call)
SeqsUpTo(S, n) == UNION {[1..k -> S] : k \in 0..n}

\* `a || b`
Or(a, b) == IF a.t \notin {"undefined"} /\ a # Bool(FALSE) THEN a ELSE b

\* mutants of Object.create: the object itself instead of a fresh heir
\* (Class.prototype = this.prototype), or a fresh heir of Object.prototype
ObjectCreateAlias(H, o) == [heap |-> H, ref |-> o]
ObjectCreateOrphan(H, o) ==
    [heap |-> Append(H, [parent |-> 1, own |-> NoMethods, constructor |-> Undef]),
     ref |-> Len(H) + 1]

\* Object.create(o): a fresh object whose [[Prototype]] is o
ObjectCreate(H, o) ==
    [heap |-> Append(H, [parent |-> o, own |-> NoMethods, constructor |-> Undef]),
     ref |-> Len(H) + 1]

\* o[k]: the host's property lookup, own property first, then the chain
RECURSIVE Get(_, _, _)
Get(H, o, k) ==
    IF o = 0 THEN Undef
    ELSE IF H[o].own[k] # Undef THEN H[o].own[k]
    ELSE Get(H, H[o].parent, k)

\* Object.keys(descriptor): the names the descriptor holds as its own members
Keys(descriptor) == {k \in Names : descriptor[k] # Undef}

\* Class.prototype.constructor = v
SetConstructor(H, o, v) == [H EXCEPT ![o].constructor = v]

(***************************************************************************)
(* Object.prototype.extend                                                 *)
(***************************************************************************)
\* `mixin.__methods__ || mixin`: the registry of an extended class, else the
\* object itself (Object, class 1, has no registry and no enumerable members)
Descriptor(C, M, mixin) ==
    IF mixin.t = "class"
    THEN IF C[mixin.n].hasMethods THEN C[mixin.n].methods ELSE NoMethods
    ELSE M[mixin.name]

\* mutant of apply_methods: the key is defined on the prototype and not
\* recorded in the registry (no `methods[key] = descriptor[key]`)
apply_methodsUnrecorded(st, descriptor) ==
    [st EXCEPT
        !.protos = [@ EXCEPT ![st.target].own = [k \in Names |->
                        IF k \in Keys(descriptor) THEN descriptor[k] ELSE @[k]]]]

\* mutant of apply_methods: a key an earlier mixin defined is kept (first wins)
apply_methodsFirstWins(st, descriptor) ==
    [st EXCEPT
        !.methods = [k \in Names |-> IF @[k] = Undef THEN descriptor[k] ELSE @[k]],
        !.protos = [@ EXCEPT ![st.target].own = [k \in Names |->
                        IF @[k] = Undef THEN descriptor[k] ELSE @[k]]]]

\* apply_methods(descriptor): every key of the descriptor is recorded in the
\* registry `methods` and defined on Class.prototype (st.target) by
\* Object.defineProperty(Class.prototype, key, {configurable: true, value: ...}),
\* which replaces the value an earlier mixin defined
apply_methods(st, descriptor) ==
    [st EXCEPT
        !.methods = [k \in Names |->
                        IF k \in Keys(descriptor) THEN descriptor[k] ELSE @[k]],
        !.protos = [@ EXCEPT ![st.target].own = [k \in Names |->
                        IF k \in Keys(descriptor) THEN descriptor[k] ELSE @[k]]]]

\* mixins.forEach(function (mixin) { apply_methods(mixin.__methods__ || mixin) })
RECURSIVE ApplyMixins(_, _, _, _)
ApplyMixins(st, C, M, mixins) ==
    IF mixins = <<>> THEN st
    ELSE ApplyMixins(apply_methods(st, Descriptor(C, M, Head(mixins))), C, M, Tail(mixins))

\* mutant of the marker: only an init of the merged method set counts
ConstructorMarkerOwn(H, o, class) == Or(H[o].own["init"], class)

\* `Class.prototype.init || Class`
ConstructorMarker(H, o, class) == Or(Get(H, o, "init"), class)

\* p.extend(mixins...): the heaps after the call; the new class is the last one
ExtendOp(H, C, M, p, mixins) ==
    LET created == ObjectCreate(H, C[p].prototype)
        class == ClassRef(Len(C) + 1)
        st == ApplyMixins([protos |-> created.heap, methods |-> NoMethods,
                           target |-> created.ref], C, M, mixins)
        H2 == SetConstructor(st.protos, created.ref,
                             ConstructorMarker(st.protos, created.ref, class))
    IN [protos |-> H2,
        classes |-> Append(C, [prototype |-> created.ref, methods |-> st.methods,
                               hasMethods |-> TRUE, parent |-> p])]

\* the plain method maps of the documentation example
PersonMap == [k \in Names |-> CASE k = "init" -> Fn("PersonInit")
                                [] k = "dance" -> Fn("PersonDance")
                                [] OTHER -> Undef]
NinjaMap == [k \in Names |-> CASE k = "init" -> Fn("NinjaInit")
                               [] k = "dance" -> Fn("NinjaDance")
                               [] OTHER -> Fn("SwingSword")]
PirateMap == [k \in Names |-> IF k = "init" THEN Fn("PirateInit") ELSE Undef]
\* a map with no initializer: Ninja's moves alone
MovesMap == [NinjaMap EXCEPT !["init"] = Undef]

\* Object.prototype, and Object as class 1 (it has no __methods__)
ObjectPrototype == [parent |-> 0, own |-> NoMethods, constructor |-> ClassRef(1)]
ObjectClass == [prototype |-> 1, methods |-> NoMethods, hasMethods |-> FALSE, parent |-> 0]

NoOp == [kind |-> "none", self |-> Undef, method |-> "", args |-> <<>>, mixins |-> <<>>]
NoInst == [cls |-> 0, proto |-> 0, hasSuper |-> FALSE, dancing |-> Undef]

\* the plain objects of the mixin model and their member names
ObjNames == {"base", "child", "other"}
MemberNames == {"x", "y"}
NoMember == [has |-> FALSE, val |-> Undef, enumerable |-> FALSE]
NoObjs ==
    [o \in ObjNames |-> [proto |-> "Object.prototype", own |-> [k \in MemberNames |-> NoMember]]]
NoBound == [target |-> Undef, that |-> Undef, args |-> <<>>, prototype |-> Undef]

\* what may be passed to extend as a mixin: a plain map, or an extended class
MixinArgs == {MapRef(m) : m \in DOMAIN maps} \cup {ClassRef(c) : c \in 2..Len(classes)}

\* var Person = Object.extend({init: ..., dance: ...}): the first class of the
\* documentation example, which its other functions refer to by name
PersonHeap ==
    ExtendOp(<<ObjectPrototype>>, <<ObjectClass>>, [m \in {"person"} |-> PersonMap],
             1, <<MapRef("person")>>)

Init ==
    /\ protos = PersonHeap.protos
    /\ classes = PersonHeap.classes
    /\ maps = [m \in {"moves"} |-> MovesMap]
    /\ op = NoOp
    /\ inst = NoInst
    /\ trace = <<>>
    /\ ret = Undef
    /\ objs = NoObjs
    /\ bound = NoBound

\* classes[p].extend(mixins[1], ..., mixins[n])
Extend(p, mixins) ==
    /\ \E r \in {ExtendOp(protos, classes, maps, p, mixins)} :
          /\ protos' = r.protos
          /\ classes' = r.classes
          /\ ret' = ClassRef(Len(r.classes))
    /\ op' = [NoOp EXCEPT !.kind = "extend", !.self = ClassRef(p), !.mixins = mixins]
    /\ trace' = <<>>
    /\ UNCHANGED <<maps, inst, objs, bound>>

\* Object and at most MaxClasses extended classes are kept in the heap
Next ==
    /\ Len(classes) < MaxClasses + 1
    /\ \E p \in 1..Len(classes), mixins \in SeqsUpTo(MixinArgs, MaxMixins) : Extend(p, mixins)

Spec == Init /\ [][Next]_vars

(***************************************************************************)
(* Instances: the Class function run by `new`, the _super helper, and the  *)
(* functions of the documentation example.                                 *)
(***************************************************************************)
\* the class the example's functions name `Person`: the first one extend returned
PersonClass == 2
\* frames the host's call stack holds before it raises a RangeError
MaxDepth == 3

Fault(name) == Val("fault", name, 0)
IsFault(v) == v.t = "fault"
\* the instance the running call has as `this`
ThisRef == Val("object", "this", 0)
ArgVals == {Bool(TRUE), Bool(FALSE)}
\* the i-th formal parameter of a call
Arg(args, i) == IF i <= Len(args) THEN args[i] ELSE Undef

\* mutant of the dispatch: this[method], the instance's own resolution
SuperTargetVirtual(H, C, x, superClass, method) == Get(H, x.proto, method)

\* superClass.prototype[method], the implementation _super dispatches to
SuperTarget(H, C, x, superClass, method) == Get(H, C[superClass.n].prototype, method)

RECURSIVE Apply(_, _, _, _, _, _)
RECURSIVE SuperCall(_, _, _, _, _, _, _)

\* this._super(superClass, method, args...) as a function of the example writes it:
\* the host faults when the instance holds no _super
ThisSuper(H, C, x, superClass, method, args, depth) ==
    IF x.hasSuper THEN SuperCall(H, C, x, superClass, method, args, depth)
    ELSE [inst |-> x, ret |-> Fault("TypeError"), trace |-> <<>>]

\* the bodies of the example's functions, run with x as `this`
Body(H, C, f, x, args, depth) ==
    CASE f.name = "PersonInit" ->
            [inst |-> [x EXCEPT !.dancing = Arg(args, 1)], ret |-> Undef, trace |-> <<>>]
      [] f.name = "PersonDance" ->
            [inst |-> x, ret |-> x.dancing, trace |-> <<>>]
      [] f.name = "NinjaInit" ->
            LET r == ThisSuper(H, C, x, ClassRef(PersonClass), "init", <<Bool(FALSE)>>, depth + 1)
            IN [r EXCEPT !.ret = IF IsFault(r.ret) THEN r.ret ELSE Undef]
      [] f.name = "NinjaDance" ->
            ThisSuper(H, C, x, ClassRef(PersonClass), "dance", <<>>, depth + 1)
      [] f.name = "PirateInit" ->
            LET r == ThisSuper(H, C, x, ClassRef(PersonClass), "init", <<Bool(TRUE)>>, depth + 1)
            IN [r EXCEPT !.ret = IF IsFault(r.ret) THEN r.ret ELSE Undef]
      [] OTHER ->
            [inst |-> x, ret |-> Bool(TRUE), trace |-> <<>>]

\* f.apply(x, args): the call is recorded, then the body runs
Apply(H, C, f, x, args, depth) ==
    IF depth > MaxDepth
    THEN [inst |-> x, ret |-> Fault("RangeError"), trace |-> <<>>]
    ELSE LET b == Body(H, C, f, x, args, depth)
         IN [inst |-> b.inst, ret |-> b.ret,
             trace |-> <<[fn |-> f.name, this |-> ThisRef, args |-> args,
                          superSeen |-> x.hasSuper, depth |-> depth,
                          result |-> b.ret]>> \o b.trace]

\* mutant of the helper: a missing member is checked for and skipped
SuperCallChecked(H, C, x, superClass, method, args, depth) ==
    LET f == SuperTarget(H, C, x, superClass, method)
    IN IF f = Undef
       THEN [inst |-> x, ret |-> Undef, trace |-> <<>>]
       ELSE Apply(H, C, f, x, args, depth)

\* the _super helper: superClass.prototype[method].apply(this, arguments.slice(2));
\* applying a missing member is the host's TypeError
SuperCall(H, C, x, superClass, method, args, depth) ==
    LET f == SuperTarget(H, C, x, superClass, method)
    IN IF f = Undef
       THEN [inst |-> x, ret |-> Fault("TypeError"), trace |-> <<>>]
       ELSE Apply(H, C, f, x, args, depth)

\* the object `new` hands to the Class function classes[c]: its [[Prototype]] is
\* Class.prototype and it has no own members yet
FreshInstance(C, c) ==
    [cls |-> c, proto |-> C[c].prototype, hasSuper |-> FALSE, dancing |-> Undef]

\* x[k] for a method name k: an instance owns _super and its fields only, so
\* the lookup starts at its [[Prototype]]
InstanceGet(H, x, k) == Get(H, x.proto, k)

\* the prototypes an object reaches, nearest first
RECURSIVE ProtoChain(_, _)
ProtoChain(H, o) == IF o = 0 THEN <<>> ELSE <<o>> \o ProtoChain(H, H[o].parent)

\* x instanceof classes[k]: the class's prototype is in the chain of x
InstanceOf(H, C, x, k) ==
    \E i \in DOMAIN ProtoChain(H, x.proto) : ProtoChain(H, x.proto)[i] = C[k].prototype

\* this._super = function (superClass, method) {...}
InstallSuper(x) == [x EXCEPT !.hasSuper = TRUE]

\* if (this.init) { this.init.apply(this, arguments); }
RunInit(H, C, x, args) ==
    LET init == InstanceGet(H, x, "init")
    IN IF init # Undef THEN Apply(H, C, init, x, args, 0)
       ELSE [inst |-> x, ret |-> Undef, trace |-> <<>>]

\* mutant of the Class function: the initializer runs before _super is installed
ConstructInitFirst(H, C, c, args) ==
    LET r == RunInit(H, C, FreshInstance(C, c), args)
    IN [r EXCEPT !.inst = InstallSuper(r.inst),
                 !.ret = IF IsFault(r.ret) THEN r.ret ELSE ThisRef]

\* the Class function, run by `new` on a fresh object whose [[Prototype]] is
\* Class.prototype: installs _super, runs the initializer, returns this
Construct(H, C, c, args) ==
    LET r == RunInit(H, C, InstallSuper(FreshInstance(C, c)), args)
    IN [r EXCEPT !.ret = IF IsFault(r.ret) THEN r.ret ELSE ThisRef]

\* x = new classes[c](args...)
New(c, args) ==
    /\ \E r \in {Construct(protos, classes, c, args)} :
          /\ inst' = IF IsFault(r.ret) THEN inst ELSE r.inst
          /\ trace' = r.trace
          /\ ret' = r.ret
    /\ op' = [NoOp EXCEPT !.kind = "new", !.self = ClassRef(c), !.args = args]
    /\ UNCHANGED <<protos, classes, maps, objs, bound>>

\* x._super(classes[a], method, args...)
Super(a, method, args) ==
    /\ inst # NoInst
    /\ \E r \in {ThisSuper(protos, classes, inst, ClassRef(a), method, args, 0)} :
          /\ inst' = r.inst
          /\ trace' = r.trace
          /\ ret' = r.ret
    /\ op' = [NoOp EXCEPT !.kind = "super", !.self = ClassRef(a), !.method = method,
                          !.args = args]
    /\ UNCHANGED <<protos, classes, maps, objs, bound>>

\* x[method](args...): an ordinary method call, as p.dance() in the example
Invoke(method, args) ==
    /\ inst # NoInst
    /\ \E f \in {InstanceGet(protos, inst, method)} :
       \E r \in {IF f = Undef
                 THEN [inst |-> inst, ret |-> Fault("TypeError"), trace |-> <<>>]
                 ELSE Apply(protos, classes, f, inst, args, 0)} :
          /\ inst' = r.inst
          /\ trace' = r.trace
          /\ ret' = r.ret
    /\ op' = [NoOp EXCEPT !.kind = "invoke", !.method = method, !.args = args]
    /\ UNCHANGED <<protos, classes, maps, objs, bound>>

\* the documentation example: Person, Ninja = Person.extend({...}) and
\* Pirate = Person.extend(Ninja, {...}); then a class with no initializer at all
\* and a class that only inherits its methods
ExampleMaps ==
    [m \in {"person", "ninja", "pirate"} |->
        CASE m = "person" -> PersonMap [] m = "ninja" -> NinjaMap [] OTHER -> PirateMap]
NinjaHeap ==
    ExtendOp(PersonHeap.protos, PersonHeap.classes, ExampleMaps, PersonClass,
             <<MapRef("ninja")>>)
PirateHeap ==
    ExtendOp(NinjaHeap.protos, NinjaHeap.classes, ExampleMaps, PersonClass,
             <<ClassRef(Len(NinjaHeap.classes)), MapRef("pirate")>>)
BareHeap == ExtendOp(PirateHeap.protos, PirateHeap.classes, ExampleMaps, 1, <<>>)
HeirHeap ==
    ExtendOp(BareHeap.protos, BareHeap.classes, ExampleMaps, Len(NinjaHeap.classes), <<>>)

InitInst ==
    /\ protos = HeirHeap.protos
    /\ classes = HeirHeap.classes
    /\ maps = ExampleMaps
    /\ op = NoOp
    /\ inst = NoInst
    /\ trace = <<>>
    /\ ret = Undef
    /\ objs = NoObjs
    /\ bound = NoBound

NextInst ==
    \/ \E c \in 2..Len(classes), args \in SeqsUpTo(ArgVals, MaxArgs) : New(c, args)
    \/ \E a \in 1..Len(classes), method \in Names, args \in SeqsUpTo(ArgVals, MaxArgs) :
          Super(a, method, args)
    \/ \E method \in Names, args \in SeqsUpTo(ArgVals, MaxArgs) : Invoke(method, args)

SpecInst == InitInst /\ [][NextInst]_vars

(***************************************************************************)
(* Object.prototype.mixin, on plain objects: every member is a writable    *)
(* data property, enumerable or not, and an object may inherit from        *)
(* another one.                                                            *)
(***************************************************************************)
ObjRef(o) == Val("object", o, 0)

\* the member the host finds for o[k]: the nearest owner's, along the chain;
\* Object.prototype has no enumerable member and none named like these
RECURSIVE FindMember(_, _, _)
FindMember(H, o, k) ==
    IF o = "Object.prototype" THEN NoMember
    ELSE IF H[o].own[k].has THEN H[o].own[k]
    ELSE FindMember(H, H[o].proto, k)

\* the names `for (i in obj)` visits: the enumerable members, own and inherited
ForIn(H, obj) ==
    {k \in MemberNames : FindMember(H, obj, k).has /\ FindMember(H, obj, k).enumerable}

\* mutant of the ownership test: `i in obj`
HasOwnPropertyLoose(H, obj, i) == FindMember(H, obj, i).has

\* obj.hasOwnProperty(i)
HasOwnProperty(H, obj, i) == H[obj].own[i].has

\* self[i] = v: the own member is updated, or created as an enumerable one
Put(H, self, i, v) ==
    IF H[self].own[i].has THEN [H EXCEPT ![self].own[i].val = v]
    ELSE [H EXCEPT ![self].own[i] = [has |-> TRUE, val |-> v, enumerable |-> TRUE]]

\* the loop of mixin over the names still to visit.  An assignment of the loop
\* adds no name to the ones for-in visits: it writes a name obj owns.
RECURSIVE MixinLoop(_, _, _, _)
MixinLoop(H, self, obj, todo) ==
    IF todo = {} THEN H
    ELSE LET i == CHOOSE k \in todo : TRUE
         IN MixinLoop(IF HasOwnProperty(H, obj, i)
                      THEN Put(H, self, i, FindMember(H, obj, i).val) ELSE H,
                      self, obj, todo \ {i})

\* self.mixin(obj): the heap after the call, and `return self`
MixinOp(H, self, obj) ==
    [heap |-> MixinLoop(H, self, obj, ForIn(H, obj)), ret |-> ObjRef(self)]

\* the members an object literal may start with: none, or a value of its own,
\* enumerable or not
StartMembers(o) ==
    {NoMember} \cup {[has |-> TRUE, val |-> Val("number", o, 0), enumerable |-> e] :
                        e \in BOOLEAN}

InitMixin ==
    /\ \E base \in [MemberNames -> StartMembers("base")],
          child \in [MemberNames -> StartMembers("child")],
          other \in [MemberNames -> StartMembers("other")] :
          objs = [o \in ObjNames |->
                    CASE o = "base" -> [proto |-> "Object.prototype", own |-> base]
                      [] o = "child" -> [proto |-> "base", own |-> child]
                      [] OTHER -> [proto |-> "Object.prototype", own |-> other]]
    /\ protos = PersonHeap.protos
    /\ classes = PersonHeap.classes
    /\ maps = [m \in {"person"} |-> PersonMap]
    /\ op = NoOp
    /\ inst = NoInst
    /\ trace = <<>>
    /\ ret = Undef
    /\ bound = NoBound

\* self.mixin(obj)
Mixin(self, obj) ==
    /\ \E r \in {MixinOp(objs, self, obj)} :
          /\ objs' = r.heap
          /\ ret' = r.ret
    /\ op' = [NoOp EXCEPT !.kind = "mixin", !.self = ObjRef(self), !.args = <<ObjRef(obj)>>]
    /\ UNCHANGED <<protos, classes, maps, inst, trace, bound>>

NextMixin == \E self \in ObjNames, obj \in ObjNames : Mixin(self, obj)

SpecMixin == InitMixin /\ [][NextMixin]_vars

(***************************************************************************)
(* Function.prototype.bind (the fallback): bound functions over three      *)
(* target functions, called plainly or as constructors.                    *)
(***************************************************************************)
\* Point(x) { this.x = x }, Make(v) { return {v: v} }, and Max, a built-in
\* function, which has no prototype and returns its first argument
TargetNames == {"Point", "Make", "Max"}
HasPrototype(target) == target.name # "Max"
\* the contexts a function is bound to: an object, or nothing
Contexts == {Val("object", "ctx", 0), Undef}
Global == Val("object", "global", 0)
\* the object `new` creates for a constructor call
NewObject == Val("object", "new", 0)
ObjectPrototypeRef == Val("object", "Object.prototype", 0)

\* Object(v) === v
IsObject(v) == v.t \in {"object", "function", "class", "map"}

\* target.apply(this, args): what the target returns
TargetResult(target, this, args) ==
    CASE target.name = "Point" -> Undef
      [] target.name = "Make" -> Val("object", "made", 0)
      [] OTHER -> Arg(args, 1)

\* target.apply(this, args), recorded
TargetApply(target, this, args) ==
    [ret |-> TargetResult(target, this, args),
     trace |-> <<[fn |-> target.name, this |-> this, args |-> args, superSeen |-> FALSE,
                  depth |-> 0, result |-> TargetResult(target, this, args)]>>]

\* target.bind(that, args...): the TypeError for a receiver that is not callable,
\* else the bound function with its prototype: an object that inherits from
\* target.prototype when the target has one, the function's own fresh one if not
BindOp(target, that, args) ==
    IF target.t # "function" THEN [bound |-> NoBound, ret |-> Fault("TypeError")]
    ELSE [bound |-> [target |-> target, that |-> that, args |-> args,
                     prototype |-> Val("object", "bound.prototype", 0)],
          ret |-> Val("function", "bound", 0)]

\* the prototypes an object reaches: the object a constructor call of b creates
\* starts at b.prototype, any other object of the model at Object.prototype
ChainOf(b, this) ==
    IF this = NewObject
    THEN <<b.prototype>>
            \o (IF HasPrototype(b.target) THEN <<Val("object", b.target.name, 1)>> ELSE <<>>)
            \o <<ObjectPrototypeRef>>
    ELSE IF this = Undef THEN <<>> ELSE <<ObjectPrototypeRef>>

\* mutant of the constructor test: never a constructor call
InstanceOfBoundNever(b, this) == FALSE

\* this instanceof bound
InstanceOfBound(b, this) ==
    \E i \in DOMAIN ChainOf(b, this) : ChainOf(b, this)[i] = b.prototype

\* args.concat(Array.prototype.slice.call(arguments))
BoundArgs(b, args) == b.args \o args

\* the body of `bound`, run with `this` and the call's arguments
BoundBody(b, this, args) ==
    IF InstanceOfBound(b, this)
    THEN LET r == TargetApply(b.target, this, BoundArgs(b, args))
         IN [r EXCEPT !.ret = IF IsObject(r.ret) THEN r.ret ELSE this]
    ELSE TargetApply(b.target, b.that, BoundArgs(b, args))

InitBind ==
    /\ bound = NoBound
    /\ objs = NoObjs
    /\ protos = PersonHeap.protos
    /\ classes = PersonHeap.classes
    /\ maps = [m \in {"person"} |-> PersonMap]
    /\ op = NoOp
    /\ inst = NoInst
    /\ trace = <<>>
    /\ ret = Undef

\* b = target.bind(that, args...)
Bind(target, that, args) ==
    /\ \E r \in {BindOp(target, that, args)} :
          /\ bound' = IF IsFault(r.ret) THEN bound ELSE r.bound
          /\ ret' = r.ret
    /\ op' = [NoOp EXCEPT !.kind = "bind", !.self = target, !.args = <<that>> \o args]
    /\ trace' = <<>>
    /\ UNCHANGED <<protos, classes, maps, inst, objs>>

\* b(args...): a plain call, whose `this` is the global object
CallBound(args) ==
    /\ bound # NoBound
    /\ \E r \in {BoundBody(bound, Global, args)} :
          /\ trace' = r.trace
          /\ ret' = r.ret
    /\ op' = [NoOp EXCEPT !.kind = "call", !.args = args]
    /\ UNCHANGED <<protos, classes, maps, inst, objs, bound>>

\* new b(args...): `this` is a new object whose [[Prototype]] is b.prototype;
\* the call yields what b returns when that is an object, which it always is
NewBound(args) ==
    /\ bound # NoBound
    /\ \E r \in {BoundBody(bound, NewObject, args)} :
          /\ trace' = r.trace
          /\ ret' = IF IsObject(r.ret) THEN r.ret ELSE NewObject
    /\ op' = [NoOp EXCEPT !.kind = "construct", !.args = args]
    /\ UNCHANGED <<protos, classes, maps, inst, objs, bound>>

NextBind ==
    \/ \E target \in {Fn(t) : t \in TargetNames} \cup {Val("object", "ctx", 0)},
          that \in Contexts, args \in SeqsUpTo(ArgVals, MaxArgs) : Bind(target, that, args)
    \/ \E args \in SeqsUpTo(ArgVals, MaxArgs) : CallBound(args)
    \/ \E args \in SeqsUpTo(ArgVals, MaxArgs) : NewBound(args)

SpecBind == InitBind /\ [][NextBind]_vars

(***************************************************************************)
(* The vocabulary of the properties: what a mixin argument supplies, the   *)
(* ancestors of a class (by the parent each extend call was made on) and   *)
(* the nearest ancestor whose own extend call supplied a method.           *)
(***************************************************************************)
Supplied(m) == IF m.t = "map" THEN maps[m.name] ELSE classes[m.n].methods
Suppliers(ms, k) == {i \in 1..Len(ms) : Supplied(ms[i])[k] # Undef}
MaxOf(S) == CHOOSE i \in S : \A j \in S : j <= i
LastSupplied(ms, k) ==
    IF Suppliers(ms, k) = {} THEN Undef ELSE Supplied(ms[MaxOf(Suppliers(ms, k))])[k]
OwnMethod(c, k) == protos[classes[c].prototype].own[k]
ExtendedClasses == 2..Len(classes)
JustExtended == op.kind = "extend"

RECURSIVE AncestorSeq(_)
AncestorSeq(c) == IF c = 0 THEN <<>> ELSE <<c>> \o AncestorSeq(classes[c].parent)
Ancestors(c) == {AncestorSeq(c)[i] : i \in DOMAIN AncestorSeq(c)}

RECURSIVE NearestDef(_, _)
NearestDef(c, k) ==
    IF c = 0 THEN Undef
    ELSE IF classes[c].methods[k] # Undef THEN classes[c].methods[k]
    ELSE NearestDef(classes[c].parent, k)

(***************************************************************************)
(* C1: after parent.extend(m1, ..., mn), for every method name k that some *)
(* mixin supplies, the new prototype owns k with the value of the last     *)
(* mixin (largest index) that supplies k, and an instance of the new class *)
(* resolves k to that value, whatever the parent's chain defines for k.    *)
(***************************************************************************)
C1_LastMixinWins ==
    JustExtended =>
        \A k \in Names :
            Suppliers(op.mixins, k) # {} =>
                /\ OwnMethod(ret.n, k) = LastSupplied(op.mixins, k)
                /\ InstanceGet(protos, FreshInstance(classes, ret.n), k)
                        = LastSupplied(op.mixins, k)

\* two mixins supply dance with different values, the later one won, and the
\* parent's chain defines dance too, with another value than the winner's
C1_Witness ==
    /\ JustExtended
    /\ Len(op.mixins) = 2
    /\ Supplied(op.mixins[1])["dance"] # Undef
    /\ Supplied(op.mixins[2])["dance"] # Undef
    /\ Supplied(op.mixins[1])["dance"] # Supplied(op.mixins[2])["dance"]
    /\ OwnMethod(ret.n, "dance") = Supplied(op.mixins[2])["dance"]
    /\ Get(protos, classes[op.self.n].prototype, "dance")
            \notin {Undef, Supplied(op.mixins[2])["dance"]}

(***************************************************************************)
(* C3: a class M passed as a mixin contributes exactly the entries of      *)
(* M.__methods__: the registry of every class extend returns is the        *)
(* last-wins merge of what the mixin arguments of its call supplied (plain *)
(* maps and classes alike); a method M only inherits is not contributed,   *)
(* and M's prototype does not enter the new class's chain.                 *)
(***************************************************************************)
C3_ClassMixinContributesRegistry ==
    JustExtended =>
        /\ \A k \in Names : classes[ret.n].methods[k] = LastSupplied(op.mixins, k)
        /\ \A i \in 1..Len(op.mixins) :
              op.mixins[i].t = "class" =>
                 LET M == op.mixins[i].n
                 IN /\ \A k \in Names :
                          /\ (i \in Suppliers(op.mixins, k)
                                /\ \A j \in Suppliers(op.mixins, k) : j <= i) =>
                                  OwnMethod(ret.n, k) = classes[M].methods[k]
                          /\ Suppliers(op.mixins, k) = {} => OwnMethod(ret.n, k) = Undef
                    /\ M \notin Ancestors(ret.n) =>
                          ~InstanceOf(protos, classes, FreshInstance(classes, ret.n), M)

\* Object.extend(M) for a class M that merged dance into its registry and only
\* inherits init: the new class owns M's dance and no init at all
C3_Witness ==
    /\ JustExtended
    /\ op.self = ClassRef(1)
    /\ Len(op.mixins) = 1
    /\ op.mixins[1].t = "class"
    /\ classes[op.mixins[1].n].methods["dance"] # Undef
    /\ classes[op.mixins[1].n].methods["init"] = Undef
    /\ Get(protos, classes[op.mixins[1].n].prototype, "init") # Undef
    /\ OwnMethod(ret.n, "dance") = classes[op.mixins[1].n].methods["dance"]
    /\ InstanceGet(protos, FreshInstance(classes, ret.n), "init") = Undef

(***************************************************************************)
(* C4 as stated: C.prototype.constructor is the initializer of C's merged  *)
(* method set (C.__methods__) when that set defines init, and the class    *)
(* function C itself otherwise.                                            *)
(***************************************************************************)
C4_Original ==
    \A c \in ExtendedClasses :
        protos[classes[c].prototype].constructor =
            IF classes[c].methods["init"] # Undef
            THEN classes[c].methods["init"] ELSE ClassRef(c)

(***************************************************************************)
(* C4 as amended: C.prototype.constructor is the initializer C's prototype *)
(* resolves for init, the merged method set's or else the one inherited    *)
(* from the nearest ancestor that defines one, and that initializer is the *)
(* routine construction runs; it is the class function C itself only when  *)
(* neither C's merged method set nor any ancestor defines init.            *)
(***************************************************************************)
C4_ConstructorMarker ==
    \A c \in ExtendedClasses :
        /\ protos[classes[c].prototype].constructor =
              IF NearestDef(c, "init") # Undef THEN NearestDef(c, "init") ELSE ClassRef(c)
        /\ NearestDef(c, "init") # Undef =>
              /\ Construct(protos, classes, c, <<>>).trace # <<>>
              /\ Fn(Construct(protos, classes, c, <<>>).trace[1].fn)
                    = protos[classes[c].prototype].constructor
        /\ NearestDef(c, "init") = Undef =>
              Construct(protos, classes, c, <<>>).trace = <<>>

\* a class whose merged method set has no init and whose marker is the
\* initializer inherited from its parent, and a class whose marker is itself
C4_Witness ==
    /\ \E c \in ExtendedClasses :
          /\ classes[c].methods["init"] = Undef
          /\ protos[classes[c].prototype].constructor = Fn("PersonInit")
    /\ \E c \in ExtendedClasses :
          protos[classes[c].prototype].constructor = ClassRef(c)

(***************************************************************************)
(* C5: C = P.extend(...) has a fresh prototype whose prototype is          *)
(* P.prototype, so an instance of C reaches, in order, the prototypes of   *)
(* C, P and P's ancestors and no other class's; it is an instance of       *)
(* exactly C and its ancestors, never of a class passed only as a mixin;   *)
(* a name C's mixins do not supply resolves as it does for P.              *)
(***************************************************************************)
C5_SingleInheritanceChain ==
    /\ \A c \in ExtendedClasses :
          /\ protos[classes[c].prototype].parent = classes[classes[c].parent].prototype
          /\ \A d \in 1..Len(classes) : d # c => classes[d].prototype # classes[c].prototype
          /\ ProtoChain(protos, FreshInstance(classes, c).proto)
                = [i \in DOMAIN AncestorSeq(c) |-> classes[AncestorSeq(c)[i]].prototype]
          /\ \A d \in 1..Len(classes) :
                InstanceOf(protos, classes, FreshInstance(classes, c), d)
                    <=> d \in Ancestors(c)
    /\ JustExtended =>
          /\ classes[ret.n].parent = op.self.n
          /\ \A k \in Names :
                Suppliers(op.mixins, k) = {} =>
                    InstanceGet(protos, FreshInstance(classes, ret.n), k)
                        = NearestDef(op.self.n, k)

\* X.extend(Person, ...) on a parent X that is not Object: Person is a mixin only,
\* an instance is an X and not a Person, and swingSword, which no mixin
\* supplies, resolves to X's
C5_Witness ==
    /\ JustExtended
    /\ op.self.n > PersonClass
    /\ \E i \in 1..Len(op.mixins) : op.mixins[i] = ClassRef(PersonClass)
    /\ ~InstanceOf(protos, classes, FreshInstance(classes, ret.n), PersonClass)
    /\ InstanceOf(protos, classes, FreshInstance(classes, ret.n), op.self.n)
    /\ Suppliers(op.mixins, "swingSword") = {}
    /\ InstanceGet(protos, FreshInstance(classes, ret.n), "swingSword") = Fn("SwingSword")

(***************************************************************************)
(* C10: a later extend call leaves every existing class as it was: its     *)
(* prototype's own methods, parent link and constructor marker, its        *)
(* registry, and every plain method map.                                   *)
(***************************************************************************)
C10_ExtendLeavesClassesAlone ==
    [][/\ \A c \in 1..Len(classes) :
             /\ c \in 1..Len(classes')
             /\ classes'[c] = classes[c]
             /\ protos'[classes[c].prototype] = protos[classes[c].prototype]
       /\ maps' = maps]_vars

\* a class extend returned has since been the parent of one call and, with a
\* plain map, a mixin of another
C10_Witness ==
    /\ JustExtended
    /\ Len(classes) = MaxClasses + 1
    /\ classes[Len(classes) - 1].parent = PersonClass
    /\ \E i \in 1..Len(op.mixins) : op.mixins[i] = ClassRef(PersonClass)
    /\ \E i \in 1..Len(op.mixins) : op.mixins[i].t = "map"

(***************************************************************************)
(* C2: x._super(A, m, a1..an) invokes exactly the implementation A's       *)
(* prototype resolves for m (A's own, else its nearest ancestor's), once,  *)
(* with x as the context and a1..an as the arguments, and returns its      *)
(* result; an override nearer to x is not invoked.                         *)
(***************************************************************************)
DirectCalls == {i \in DOMAIN trace : trace[i].depth = 0}

C2_SuperDispatchesToNamedAncestor ==
    (op.kind = "super" /\ NearestDef(op.self.n, op.method) # Undef) =>
        /\ trace # <<>>
        /\ Fn(trace[1].fn) = NearestDef(op.self.n, op.method)
        /\ trace[1].args = op.args
        /\ DirectCalls = {1}
        /\ ret = trace[1].result
        /\ trace[1].fn = "PersonInit" => inst.dancing = Arg(op.args, 1)
        /\ trace[1].fn = "PersonDance" => ret = inst.dancing

\* a Ninja calls _super(Person, "dance"): Person's dance ran on it, not the
\* Ninja's own override, and returned the instance's field
C2_Witness ==
    /\ op.kind = "super"
    /\ op.self = ClassRef(PersonClass)
    /\ op.method = "dance"
    /\ inst.cls > PersonClass
    /\ InstanceGet(protos, inst, "dance") = Fn("NinjaDance")
    /\ Len(trace) = 1
    /\ trace[1].fn = "PersonDance"
    /\ inst.dancing = Bool(FALSE)
    /\ ret = Bool(FALSE)

(***************************************************************************)
(* C6: new C(a1..an) installs _super on the new instance first and then    *)
(* runs the initializer the instance resolves for init (its class's, or    *)
(* the nearest ancestor's), exactly once, with exactly a1..an, so that the *)
(* initializer can call this._super; with no init resolvable nothing runs; *)
(* either way the instance is returned with _super installed.              *)
(***************************************************************************)
C6_ConstructionOrder ==
    op.kind = "new" =>
        /\ ret = ThisRef
        /\ inst.cls = op.self.n
        /\ inst.proto = classes[op.self.n].prototype
        /\ inst.hasSuper
        /\ IF NearestDef(op.self.n, "init") # Undef
           THEN /\ trace # <<>>
                /\ Fn(trace[1].fn) = NearestDef(op.self.n, "init")
                /\ trace[1].args = op.args
                /\ DirectCalls = {1}
                /\ \A i \in DOMAIN trace : trace[i].superSeen
           ELSE trace = <<>>

\* a class that defines no init of its own inherits Ninja's, which ran once with
\* the caller's argument and called this._super(Person, "init", false) itself
C6_Witness ==
    /\ op.kind = "new"
    /\ classes[op.self.n].methods["init"] = Undef
    /\ op.args = <<Bool(TRUE)>>
    /\ Len(trace) = 2
    /\ trace[1].fn = "NinjaInit"
    /\ trace[1].args = <<Bool(TRUE)>>
    /\ trace[2].fn = "PersonInit"
    /\ trace[2].depth = 1
    /\ inst.dancing = Bool(FALSE)

C8_BindCallAndConstruct ==
    /\ op.kind = "call" =>
          /\ Len(trace) = 1
          /\ trace[1].fn = bound.target.name
          /\ trace[1].this = bound.that
          /\ trace[1].args = bound.args \o op.args
          /\ ret = trace[1].result
    /\ op.kind = "construct" =>
          /\ Len(trace) = 1
          /\ trace[1].fn = bound.target.name
          /\ trace[1].this = NewObject
          /\ trace[1].args = bound.args \o op.args
          /\ ret = IF IsObject(trace[1].result) THEN trace[1].result ELSE NewObject

\* new b(false) for b = Point.bind(ctx, true): Point ran on the new object, not
\* on ctx, with (true, false), and the new object is the result
C8_Witness ==
    /\ op.kind = "construct"
    /\ bound.target = Fn("Point")
    /\ bound.that = Val("object", "ctx", 0)
    /\ bound.args = <<Bool(TRUE)>>
    /\ op.args = <<Bool(FALSE)>>
    /\ trace[1].this = NewObject
    /\ trace[1].args = <<Bool(TRUE), Bool(FALSE)>>
    /\ ret = NewObject

====
